---- MODULE Spec2Model ----
(***************************************************************************)
(* Flow-coordination engine of agent_comm (core/flow_manager.py) and the   *)
(* agent turn of agent_chat_tools.py.                                      *)
(*                                                                         *)
(* The three JSON files are the variables waiting, queue and convs.  The   *)
(* clock `now` is time.time() / datetime.now() in whole seconds.  A value  *)
(* that Python leaves out (None, a missing key) is the empty set where the *)
(* field is optional ({} absent, {v} present), or one of the sentinels     *)
(* None / NoTimeout / NoConv where a parameter defaults to None.           *)
(*                                                                         *)
(* Ids are modelled by what the f-strings put in them:                     *)
(*   waiting id  f"{agent_tool}_{int(time.time())}"  = [tool, sec]         *)
(*   message id  f"msg_{int(time.time())}"           = sec                 *)
(*   conv id     f"conv_{int(time.time())}"          = sec                 *)
(***************************************************************************)
EXTENDS Integers, Sequences, FiniteSets, TLC

VARIABLES
    now,        \* the wall clock, in seconds
    waiting,    \* waiting_agents.json: waiting id -> session record
    queue,      \* message_queue.json: the pending_messages list
    convs,      \* conversation_flow.json: the active_conversations list
    pc,         \* per agent process: where its tool call stands
    wid,        \* per agent process: the waiting id register returned
    tmo,        \* per agent process: the timeout given to wait_for_delivery
    start,      \* per agent process: start_time of wait_for_delivery
    result,     \* per agent process: what wait_for_delivery returned
    reg,        \* per agent process: the locals of a registration under way
    conversations,  \* conversations.json of the StateManager (two-party path)
    registry,       \* agent_registry.json of the StateManager
    pending_calls,  \* pending_calls.json of the StateManager
    calls,          \* per call of an engine handler: its locals
    lock,       \* per agent process: the lock of its FlowManager is held
    raw         \* per file: what is on disk ("stored": what the last write put)

vars == <<now, waiting, queue, convs, pc, wid, tmo, start, result, reg,
          conversations, registry, pending_calls, calls, lock, raw>>

store == <<waiting, queue, convs>>
procs == <<pc, wid, tmo, start, result, reg>>
pairs == <<conversations, registry, pending_calls, calls>>
io == <<lock, raw>>

---------------------------------------------------------------------------
(* Bounds of the model *)

\* how many times the clock advances (each time by a second or by an hour)
MaxTicks == 1

\* how many messages are sent on the two-party path
MaxSent == 3

---------------------------------------------------------------------------
(* Values *)

Agents == {"alice", "bob"}
Tools == {"agent_chat_1", "agent_chat_2"}

\* the three files of the FlowManager
Files == {"waiting_agents", "message_queue", "conversation_flow"}

None == "None"
NoTimeout == -1
NoConv == -1
SecondsPerHour == 3600
PollInterval == 1

\* timeout=None as the agent tools call it; numeric timeouts for other callers
NumericTimeouts == {1, 2}

\* the participants argument of a registration: {} is None (the default)
ParticipantLists ==
    { <<"alice", "bob">>, <<"alice", "bob", "alice">> }

TickCount(n) == (n \div SecondsPerHour) + (n % SecondsPerHour)

Elems(s) == { s[i] : i \in DOMAIN s }

Truthy(text) == text # None /\ text # ""

---------------------------------------------------------------------------
(* register_waiting_agent and add_message_to_queue *)

\* faulty variant: only the first occurrence of from_agent is taken out
Targets_FirstOnly(participants, from_agent) ==
    LET hits == { i \in DOMAIN participants : participants[i] = from_agent } IN
    IF hits = {} THEN participants
    ELSE LET k == CHOOSE i \in hits : \A j \in hits : i <= j IN
         [i \in 1..(Len(participants) - 1) |->
             IF i < k THEN participants[i] ELSE participants[i + 1]]

\* targets = [p for p in participants if p != from_agent]
Targets(participants, from_agent) ==
    SelectSeq(participants, LAMBDA p : p # from_agent)

MessageEntry(conversation_id, from_agent, message, participants, waiting_id) ==
    LET targets == Targets(participants, from_agent) IN
    [ id |-> now,
      conversation_id |-> conversation_id,
      from_agent |-> from_agent,
      message |-> message,
      targets |-> targets,
      timestamp |-> now,
      delivered |-> [t \in Elems(targets) |-> FALSE],
      delivered_all |-> {},
      delivered_at |-> {},
      waiting_id |-> waiting_id,
      targets_at_enqueue |-> targets ]

\* faulty variant: a message nobody is a target of is not recorded
add_message_to_queue_NeedsTargets(q, conversation_id, from_agent, message, participants, waiting_id) ==
    IF Targets(participants, from_agent) = << >> THEN q
    ELSE Append(q, MessageEntry(conversation_id, from_agent, message,
                                participants, waiting_id))

\* faulty variant: the new message is put first
add_message_to_queue_Prepend(q, conversation_id, from_agent, message, participants, waiting_id) ==
    <<MessageEntry(conversation_id, from_agent, message, participants, waiting_id)>> \o q

add_message_to_queue(q, conversation_id, from_agent, message, participants, waiting_id) ==
    Append(q, MessageEntry(conversation_id, from_agent, message, participants, waiting_id))

ConvIndex(conversation_id) ==
    { i \in DOMAIN convs : convs[i].conversation_id = conversation_id }

FirstOf(S) == CHOOSE i \in S : \A j \in S : i <= j

\* faulty variant: the participants of a known conversation are replaced
UpsertConversation_Replace(conversation_id, participants) ==
    IF ConvIndex(conversation_id) # {}
    THEN LET i == FirstOf(ConvIndex(conversation_id)) IN
         [convs EXCEPT ![i].participants = Elems(participants),
                       ![i].last_update = now]
    ELSE Append(convs, [ conversation_id |-> conversation_id,
                         participants |-> Elems(participants),
                         created_at |-> now,
                         last_update |-> now ])

UpsertConversation(conversation_id, participants) ==
    IF ConvIndex(conversation_id) # {}
    THEN LET i == FirstOf(ConvIndex(conversation_id)) IN
         [convs EXCEPT ![i].participants = @ \cup Elems(participants),
                       ![i].last_update = now]
    ELSE Append(convs, [ conversation_id |-> conversation_id,
                         participants |-> Elems(participants),
                         created_at |-> now,
                         last_update |-> now ])

SessionEntry(agent_tool, agent_id, conversation_id, participants, message) ==
    [ agent_tool |-> agent_tool,
      agent_id |-> agent_id,
      conversation_id |-> conversation_id,
      participants |-> participants,
      message |-> message,
      timestamp |-> now,
      status |-> "waiting",
      delivered_message |-> None,
      delivered_at |-> {} ]

WaitingId(agent_tool) == [tool |-> agent_tool, sec |-> now]

Put(f, k, v) == [x \in DOMAIN f \cup {k} |-> IF x = k THEN v ELSE f[x]]

register_waiting_agent(p, agent_tool, agent_id, message, participants_arg, conversation_arg, skip_queue, timeout) ==
    LET participants == IF participants_arg = {} THEN <<agent_id>>
                        ELSE CHOOSE l \in participants_arg : TRUE
        conversation_id == IF conversation_arg = NoConv THEN now
                           ELSE conversation_arg
        waiting_id == WaitingId(agent_tool)
        enqueue == Truthy(message) /\ ~skip_queue
    IN  /\ pc[p] = "idle"
        /\ convs' = UpsertConversation(conversation_id, participants)
        /\ waiting' = Put(waiting, waiting_id,
                          SessionEntry(agent_tool, agent_id, conversation_id,
                                       participants, message))
        /\ queue' = IF enqueue
                    THEN add_message_to_queue(queue, conversation_id, agent_id,
                                              message, participants, waiting_id)
                    ELSE queue
        /\ pc' = [pc EXCEPT ![p] = "poll"]
        /\ wid' = [wid EXCEPT ![p] = waiting_id]
        /\ tmo' = [tmo EXCEPT ![p] = timeout]
        /\ start' = [start EXCEPT ![p] = now]
        /\ result' = [result EXCEPT ![p] = None]
        /\ UNCHANGED <<now, reg, pairs, io>>

\* The same call of an agent tool, step by step.  Each _read_json and each
\* _write_json takes the lock of its own FlowManager instance for that one
\* file access only, so other calls run between the read of waiting_agents
\* (line 63) and the write of it (line 104).
NoLocals == [agent_tool |-> "agent_chat_1", conversation_id |-> NoConv,
             waiting_data |-> << >>]

\* lines 63-90: waiting_data is read, the defaults are filled in and the
\* conversation is stored
RegRead(p) ==
    \E agent_tool \in Tools :
        /\ pc[p] = "idle"
        /\ reg' = [reg EXCEPT ![p] = [agent_tool |-> agent_tool,
                                      conversation_id |-> now,
                                      waiting_data |-> waiting]]
        /\ convs' = UpsertConversation(now, <<p>>)
        /\ pc' = [pc EXCEPT ![p] = "registering"]
        /\ UNCHANGED <<now, waiting, queue, wid, tmo, start, result, pairs, io>>

\* lines 92-107: the session is put into the waiting_data read before, that
\* is written, the message is enqueued; the tool goes on to wait_for_delivery
RegWrite(p) ==
    LET agent_tool == reg[p].agent_tool
        conversation_id == reg[p].conversation_id
        waiting_id == WaitingId(agent_tool)
    IN  /\ pc[p] = "registering"
        /\ waiting' = Put(reg[p].waiting_data, waiting_id,
                          SessionEntry(agent_tool, p, conversation_id, <<p>>, "hi"))
        /\ queue' = add_message_to_queue(queue, conversation_id, p, "hi",
                                         <<p>>, waiting_id)
        /\ pc' = [pc EXCEPT ![p] = "poll"]
        /\ wid' = [wid EXCEPT ![p] = waiting_id]
        /\ tmo' = [tmo EXCEPT ![p] = NoTimeout]
        /\ start' = [start EXCEPT ![p] = now]
        /\ result' = [result EXCEPT ![p] = None]
        /\ reg' = [reg EXCEPT ![p] = NoLocals]
        /\ UNCHANGED <<now, convs, pairs, io>>

\* agent_chat_1_tool / agent_chat_2_tool: register_waiting_agent(tool, agent_id,
\* message), then wait_for_delivery(waiting_id, timeout=None)
AgentChatTool(p) ==
    \E agent_tool \in Tools :
        register_waiting_agent(p, agent_tool, p, "hi", {}, NoConv, FALSE, NoTimeout)

\* the tool an agent of a group conversation registers under
ToolOf(p) == IF p = "alice" THEN "agent_chat_1" ELSE "agent_chat_2"

\* a registration into a group conversation: an explicit participants list,
\* a known conversation id or none, the message queued or not
GroupRegister(p) ==
    \E participants_arg \in {{}} \cup { {l} : l \in ParticipantLists },
       conversation_arg \in {NoConv} \cup { convs[i].conversation_id : i \in DOMAIN convs },
       skip_queue \in BOOLEAN :
        register_waiting_agent(p, ToolOf(p), p, "hi", participants_arg,
                               conversation_arg, skip_queue, NoTimeout)

\* what a caller can pass: no agent id, no message or an empty one, no
\* participants list or an empty one
AgentIdArgs(p) == {p, ""}
MessageArgs == {None, "", "hi"}
ParticipantArgs(p) == { {}, {<< >>}, {<<p>>}, {<<"alice", "bob">>} }

\* a registration with any of these arguments
InputRegister(p) ==
    \E agent_id \in AgentIdArgs(p), message \in MessageArgs,
       participants_arg \in ParticipantArgs(p), skip_queue \in BOOLEAN :
        register_waiting_agent(p, ToolOf(p), agent_id, message, participants_arg,
                               NoConv, skip_queue, NoTimeout)

\* a caller that waits with a numeric timeout
TimedRegister(p) ==
    \E agent_tool \in Tools, timeout \in NumericTimeouts :
        register_waiting_agent(p, agent_tool, p, "hi", {}, NoConv, FALSE, timeout)

---------------------------------------------------------------------------

(* wait_for_delivery, one poll at a time, and the rest of the agent's turn *)

get_agent_status(waiting_id) ==
    IF waiting_id \in DOMAIN waiting THEN {waiting[waiting_id]} ELSE {}

\* faulty variant: any stored record ends the wait
IsDelivered_AnyRecord(status) == status # {}

\* status and status.get("status") == "delivered"
IsDelivered(status) == \E s \in status : s.status = "delivered"

\* faulty variant: the elapsed time is not compared with the timeout
TimedOut_AtOnce(p) == tmo[p] # NoTimeout

\* timeout is not None and time.time() - start_time >= timeout
TimedOut(p) == tmo[p] # NoTimeout /\ now - start[p] >= tmo[p]

Poll(p) ==
    LET status == get_agent_status(wid[p]) IN
    /\ pc[p] = "poll"
    /\ IF IsDelivered(status)
       THEN /\ result' = [result EXCEPT ![p] =
                            (CHOOSE s \in status : TRUE).delivered_message]
            /\ pc' = [pc EXCEPT ![p] = "got"]
       ELSE IF TimedOut(p)
       THEN /\ result' = [result EXCEPT ![p] = None]
            /\ pc' = [pc EXCEPT ![p] = "got"]
       ELSE /\ pc' = [pc EXCEPT ![p] = "sleep"]
            /\ UNCHANGED result
    /\ UNCHANGED <<now, store, wid, tmo, start, reg, pairs, io>>

\* The same poll with the lock shown.  get_agent_status calls _read_json,
\* which takes self._lock, reads the file and lets the lock go; the lock is
\* the one of the FlowManager instance the tool call created (line 19).
PollAcquire(p) ==
    /\ pc[p] = "poll"
    /\ ~lock[p]
    /\ lock' = [lock EXCEPT ![p] = TRUE]
    /\ pc' = [pc EXCEPT ![p] = "reading"]
    /\ UNCHANGED <<now, store, wid, tmo, start, result, reg, pairs, raw>>

\* faulty variant: the lock is still held when the agent goes to sleep
PollRelease_KeepsLock(p) ==
    LET status == get_agent_status(wid[p]) IN
    /\ pc[p] = "reading"
    /\ IF IsDelivered(status)
       THEN /\ result' = [result EXCEPT ![p] =
                            (CHOOSE s \in status : TRUE).delivered_message]
            /\ pc' = [pc EXCEPT ![p] = "got"]
            /\ lock' = [lock EXCEPT ![p] = FALSE]
       ELSE IF TimedOut(p)
       THEN /\ result' = [result EXCEPT ![p] = None]
            /\ pc' = [pc EXCEPT ![p] = "got"]
            /\ lock' = [lock EXCEPT ![p] = FALSE]
       ELSE /\ pc' = [pc EXCEPT ![p] = "sleep"]
            /\ UNCHANGED <<result, lock>>
    /\ UNCHANGED <<now, store, wid, tmo, start, reg, pairs, raw>>

\* the file is read, the lock is let go, and the loop looks at the status
PollRelease(p) ==
    LET status == get_agent_status(wid[p]) IN
    /\ pc[p] = "reading"
    /\ lock' = [lock EXCEPT ![p] = FALSE]
    /\ IF IsDelivered(status)
       THEN /\ result' = [result EXCEPT ![p] =
                            (CHOOSE s \in status : TRUE).delivered_message]
            /\ pc' = [pc EXCEPT ![p] = "got"]
       ELSE IF TimedOut(p)
       THEN /\ result' = [result EXCEPT ![p] = None]
            /\ pc' = [pc EXCEPT ![p] = "got"]
       ELSE /\ pc' = [pc EXCEPT ![p] = "sleep"]
            /\ UNCHANGED result
    /\ UNCHANGED <<now, store, wid, tmo, start, reg, pairs, raw>>

\* time.sleep(1): when the sleep ends the clock has moved on by the polling
\* interval (it stays where it is once the model's clock has run out)
Wake(p) ==
    /\ pc[p] = "sleep"
    /\ pc' = [pc EXCEPT ![p] = "poll"]
    /\ now' = IF TickCount(now) < MaxTicks THEN now + PollInterval ELSE now
    /\ UNCHANGED <<store, wid, tmo, start, result, reg, pairs, io>>

remove_waiting_agent(w, waiting_id) ==
    IF waiting_id \in DOMAIN w
    THEN [x \in DOMAIN w \ {waiting_id} |-> w[x]]
    ELSE w

\* the tool's "clean up waiting state" after wait_for_delivery returned
RemoveOwn(p) ==
    /\ pc[p] = "got"
    /\ waiting' = remove_waiting_agent(waiting, wid[p])
    /\ pc' = [pc EXCEPT ![p] = "done"]
    /\ UNCHANGED <<now, queue, convs, wid, tmo, start, result, reg, pairs, io>>

\* what the tool returns once wait_for_delivery has returned: the parsed
\* message under "if delivered_message:", else the error response
UnexpectedError == "Unexpected error: No message received."

agent_chat_tool_ret(p) ==
    IF Truthy(result[p]) THEN result[p] ELSE UnexpectedError

---------------------------------------------------------------------------
(* The controller's calls *)

Delivered(session, message_content) ==
    [session EXCEPT !.status = "delivered",
                    !.delivered_message = message_content,
                    !.delivered_at = {now}]

\* faulty variant: "return True" is outside the "if"
deliver_message_to_agent_ret_Always(waiting_id) == waiting_id = waiting_id

\* the value deliver_message_to_agent returns
deliver_message_to_agent_ret(waiting_id) == waiting_id \in DOMAIN waiting

deliver_message_to_agent(waiting_id, message_content) ==
    /\ waiting' = IF waiting_id \in DOMAIN waiting
                  THEN [waiting EXCEPT ![waiting_id] =
                           Delivered(@, message_content)]
                  ELSE waiting
    /\ UNCHANGED <<now, queue, convs, procs, pairs, io>>

MsgIndex(q, message_id) == { i \in DOMAIN q : q[i].id = message_id }

\* faulty variant: "if agent in delivered" is missing
MarkedAgents_NoKeyCheck(msg, agent_ids) ==
    IF agent_ids = {} THEN DOMAIN msg.delivered
    ELSE CHOOSE a \in agent_ids : TRUE

\* the agents whose flag is set: agent_ids, or every key when agent_ids is None
MarkedAgents(msg, agent_ids) ==
    IF agent_ids = {} THEN DOMAIN msg.delivered
    ELSE (CHOOSE a \in agent_ids : TRUE) \cap DOMAIN msg.delivered

MarkEntry(msg, agent_ids) ==
    LET delivered == [a \in DOMAIN msg.delivered \cup MarkedAgents(msg, agent_ids) |->
                         IF a \in MarkedAgents(msg, agent_ids) THEN TRUE
                         ELSE msg.delivered[a]]
        delivered_all == \A a \in DOMAIN delivered : delivered[a]
    IN  [msg EXCEPT !.delivered = delivered,
                    !.delivered_all = {delivered_all},
                    !.delivered_at = IF delivered_all THEN {now} ELSE @]

\* only the first entry with the id is touched ("break")
mark_message_delivered(q, message_id, agent_ids) ==
    IF MsgIndex(q, message_id) = {} THEN q
    ELSE LET i == FirstOf(MsgIndex(q, message_id)) IN
         [q EXCEPT ![i] = MarkEntry(@, agent_ids)]

MarkMessageDelivered(message_id, agent_ids) ==
    /\ queue' = mark_message_delivered(queue, message_id, agent_ids)
    /\ UNCHANGED <<now, waiting, convs, procs, pairs, io>>

\* faulty variant: the status is not looked at
Matches_AnyStatus(session, conversation_id, agent_ids) ==
    /\ session.conversation_id = conversation_id
    /\ session.agent_id \in agent_ids

Matches(session, conversation_id, agent_ids) ==
    /\ session.conversation_id = conversation_id
    /\ session.agent_id \in agent_ids
    /\ session.status = "waiting"

\* delivered_any, the value deliver_message_to_participants returns
delivered_any(conversation_id, agent_ids) ==
    \E x \in DOMAIN waiting : Matches(waiting[x], conversation_id, agent_ids)

deliver_message_to_participants(conversation_id, agent_ids, message_content, message_id) ==
        /\ waiting' = [x \in DOMAIN waiting |->
                          IF Matches(waiting[x], conversation_id, agent_ids)
                          THEN Delivered(waiting[x], message_content)
                          ELSE waiting[x]]
        /\ queue' = IF delivered_any(conversation_id, agent_ids)
                    THEN mark_message_delivered(queue, message_id, {agent_ids})
                    ELSE queue
        /\ UNCHANGED <<now, convs, procs, pairs, io>>

\* timestamp > cutoff_time
Newer(timestamp, hours) == timestamp > now - hours * SecondsPerHour

\* msg.get("delivered", False): the delivered dict, truthy when it has a key
DeliveredTruthy(msg) == DOMAIN msg.delivered # {}

\* faulty variant: a delivered session is kept whatever its age
cleanup_old_data_KeepsDelivered(hours) ==
    /\ waiting' = [x \in { y \in DOMAIN waiting :
                               \/ Newer(waiting[y].timestamp, hours)
                               \/ waiting[y].status = "delivered" }
                      |-> waiting[x]]
    /\ queue' = SelectSeq(queue, LAMBDA msg :
                    Newer(msg.timestamp, hours) \/ ~DeliveredTruthy(msg))
    /\ UNCHANGED <<now, convs, procs, pairs, io>>

cleanup_old_data(hours) ==
    /\ waiting' = [x \in { y \in DOMAIN waiting : Newer(waiting[y].timestamp, hours) }
                      |-> waiting[x]]
    /\ queue' = SelectSeq(queue, LAMBDA msg :
                    Newer(msg.timestamp, hours) \/ ~DeliveredTruthy(msg))
    /\ UNCHANGED <<now, convs, procs, pairs, io>>

\* faulty variant: only the first entry that matches is taken out
KeptMessages_FirstOnly(q, message_ids) ==
    LET hit == { i \in DOMAIN q : q[i].id \in message_ids } IN
    IF hit = {} THEN q
    ELSE LET k == FirstOf(hit) IN
         [i \in 1..(Len(q) - 1) |-> IF i < k THEN q[i] ELSE q[i + 1]]

KeptMessages(q, message_ids) ==
    SelectSeq(q, LAMBDA msg : msg.id \notin message_ids)

\* deleted_count, the value delete_messages returns
delete_messages_ret(message_ids) ==
    IF message_ids = {} THEN 0
    ELSE Len(queue) - Len(KeptMessages(queue, message_ids))

delete_messages(message_ids) ==
    /\ queue' = IF message_ids = {} THEN queue
                ELSE KeptMessages(queue, message_ids)
    /\ UNCHANGED <<now, waiting, convs, procs, pairs, io>>

clear_all_data ==
    /\ waiting' = << >>
    /\ queue' = << >>
    /\ convs' = << >>
    /\ UNCHANGED <<now, procs, pairs, io>>

---------------------------------------------------------------------------
(* The two-party path: StateManager and MessageHandler.send_message *)

\* conv_id = f"{agent1}_{agent2}_{int(time.time())}"
PairConvId(agent1, agent2) == [agent1 |-> agent1, agent2 |-> agent2, sec |-> now]

PairConversation(conv_id, agent1, agent2) ==
    [ id |-> conv_id,
      participants |-> <<agent1, agent2>>,
      created_at |-> now,
      last_update |-> now,
      message_count |-> 0,
      messages |-> << >> ]

PairIndex(cs, conv_id) == { i \in DOMAIN cs : cs[i].id = conv_id }

\* conversations[conv_id] = {...}: a known key keeps its place in the dict
PutConversation(cs, entry) ==
    IF PairIndex(cs, entry.id) # {}
    THEN [cs EXCEPT ![FirstOf(PairIndex(cs, entry.id))] = entry]
    ELSE Append(cs, entry)

create_conversation(cs, agent1, agent2) ==
    PutConversation(cs, PairConversation(PairConvId(agent1, agent2), agent1, agent2))

\* the id of the first conversation that has both agents, {} for None
find_conversation_between_agents(cs, agent1, agent2) ==
    LET hit == { i \in DOMAIN cs : /\ agent1 \in Elems(cs[i].participants)
                                    /\ agent2 \in Elems(cs[i].participants) }
    IN  IF hit = {} THEN {} ELSE { cs[FirstOf(hit)].id }

PairMessage(n, from_agent, to_agent, message) ==
    [ id |-> n, from |-> from_agent, to |-> to_agent, content |-> message,
      timestamp |-> now, status |-> "pending" ]

add_message(cs, conv_id, from_agent, to_agent, message) ==
    LET known == IF PairIndex(cs, conv_id) # {} THEN cs
                 ELSE Append(cs, PairConversation(conv_id, from_agent, to_agent))
        i == FirstOf(PairIndex(known, conv_id))
    IN  [known EXCEPT
            ![i].messages = Append(@, PairMessage(Len(@) + 1, from_agent,
                                                  to_agent, message)),
            ![i].message_count = @ + 1,
            ![i].last_update = now]

\* _ensure_agent_registered: register_agent unless get_agent_info finds it
EnsureRegistered(r, agent_id) ==
    IF agent_id \in DOMAIN r THEN r
    ELSE Put(r, agent_id, [registered_at |-> now, last_active |-> now,
                           status |-> "online"])

update_agent_activity(r, agent_id) ==
    IF agent_id \in DOMAIN r
    THEN [r EXCEPT ![agent_id].last_active = now, ![agent_id].status = "online"]
    ELSE r

\* all messages stored on the two-party path
SentCount ==
    LET RECURSIVE Sum(_)
        Sum(i) == IF i = 0 THEN 0 ELSE conversations[i].message_count + Sum(i - 1)
    IN  Sum(Len(conversations))

\* MessageHandler.send_message
send_message(from_agent, to_agent, message) ==
    LET found == find_conversation_between_agents(conversations, from_agent, to_agent)
        created == IF found = {}
                   THEN create_conversation(conversations, from_agent, to_agent)
                   ELSE conversations
        conv_id == IF found = {} THEN PairConvId(from_agent, to_agent)
                   ELSE CHOOSE c \in found : TRUE
    IN  /\ SentCount < MaxSent
        /\ registry' = update_agent_activity(
                           EnsureRegistered(EnsureRegistered(registry, from_agent),
                                            to_agent),
                           from_agent)
        /\ conversations' = add_message(created, conv_id, from_agent, to_agent, message)
        /\ UNCHANGED <<now, store, procs, io>>

\* engine.agent_comm_send: a direct send, outside the handlers
agent_comm_send(from_agent, to_agent, message) ==
    /\ send_message(from_agent, to_agent, message)
    /\ UNCHANGED <<pending_calls, calls>>

\* The calls of the engine's handlers that can be under way at a time, and
\* the locals of a call: where it stands, its handler and arguments, the
\* pending messages check_messages has still to mark, and those it returns
Callers == {1, 2}

NoCall == [at |-> "idle", handler |-> "none", input |-> << >>, message |-> None,
           todo |-> << >>, got |-> {}]

\* StateManager.get_pending_messages_for_agent
PendingOfConversation(conv, agent_id) ==
    LET sel == SelectSeq(conv.messages,
                         LAMBDA m : m.to = agent_id /\ m.status = "pending")
    IN  [k \in 1..Len(sel) |-> [conversation_id |-> conv.id, message |-> sel[k]]]

RECURSIVE PendingFrom(_, _, _)
PendingFrom(cs, i, agent_id) ==
    IF i > Len(cs) THEN << >>
    ELSE PendingOfConversation(cs[i], agent_id) \o PendingFrom(cs, i + 1, agent_id)

get_pending_messages_for_agent(cs, agent_id) == PendingFrom(cs, 1, agent_id)

\* StateManager.mark_message_delivered: the first message with the id
StateManager_mark_message_delivered(cs, conv_id, message_id) ==
    IF PairIndex(cs, conv_id) = {} THEN cs
    ELSE LET i == FirstOf(PairIndex(cs, conv_id))
             hit == { k \in DOMAIN cs[i].messages : cs[i].messages[k].id = message_id }
         IN  IF hit = {} THEN cs
             ELSE [cs EXCEPT ![i].messages[FirstOf(hit)].status = "delivered"]

MessageKey(entry) == [conversation_id |-> entry.conversation_id, id |-> entry.message.id]

\* MessageHandler.check_messages, lines 52-62: the agent is registered, its
\* activity updated and the pending messages are read; with none the call
\* returns, else every message read will be in the result
CheckRead(c, agent_id) ==
    LET pending_messages == get_pending_messages_for_agent(conversations, agent_id) IN
    /\ calls[c].at = "idle"
    /\ registry' = update_agent_activity(EnsureRegistered(registry, agent_id), agent_id)
    /\ calls' = [calls EXCEPT ![c] =
                    [NoCall EXCEPT !.at = IF pending_messages = << >>
                                          THEN "returned" ELSE "marking",
                                   !.handler = "check_messages",
                                   !.input = <<agent_id>>,
                                   !.todo = pending_messages,
                                   !.got = { MessageKey(pending_messages[k]) :
                                               k \in DOMAIN pending_messages }]]
    /\ UNCHANGED <<now, store, procs, io, conversations, pending_calls>>

\* lines 66-71, one turn of the loop: mark_message_delivered reads the
\* conversations, sets the status and writes them; after the last the call
\* returns
CheckMark(c) ==
    /\ calls[c].at = "marking"
    /\ conversations' = StateManager_mark_message_delivered(
                            conversations, calls[c].todo[1].conversation_id,
                            calls[c].todo[1].message.id)
    /\ calls' = [calls EXCEPT ![c].todo = Tail(@),
                              ![c].at = IF Len(calls[c].todo) = 1
                                        THEN "returned" ELSE "marking"]
    /\ UNCHANGED <<now, store, procs, io, registry, pending_calls>>

\* The agent id argument of a handler, as the parts of agent_input.split(":"):
\* "id", "id:Name", "id:Name:Type".  A key of pending_calls is such a string;
\* the string that is an id alone has one part
AgentInputs ==
    UNION { { <<a>>, <<a, "Name">>, <<a, "Name", "custom">> } : a \in Agents }

\* MessageHandler.parse_agent_id: the id is the first part
parse_agent_id(agent_input) ==
    [id |-> <<agent_input[1]>>,
     name |-> IF Len(agent_input) = 1 THEN <<agent_input[1]>> ELSE <<agent_input[2]>>,
     type |-> IF Len(agent_input) = 3 THEN <<agent_input[3]>> ELSE <<"custom">>]

add_pending_call(pending, agent_id, message) ==
    Put(pending, agent_id, [message |-> message, timestamp |-> now, waiting |-> TRUE])

remove_pending_call(pending, agent_id) ==
    IF agent_id \in DOMAIN pending
    THEN [k \in DOMAIN pending \ {agent_id} |-> pending[k]]
    ELSE pending

\* handle_send_message up to show_controller_ui(): without a message the
\* call returns an error at once; else the entry is added under the parsed id
SendBegin(c, agent_input, message) ==
    /\ calls[c].at = "idle"
    /\ calls' = [calls EXCEPT ![c] =
                    [NoCall EXCEPT !.at = IF Truthy(message) THEN "ui" ELSE "returned",
                                   !.handler = "handle_send_message",
                                   !.input = agent_input,
                                   !.message = message]]
    /\ pending_calls' = IF Truthy(message)
                        THEN add_pending_call(pending_calls,
                                              parse_agent_id(agent_input).id, message)
                        ELSE pending_calls
    /\ UNCHANGED <<now, store, procs, io, conversations, registry>>

\* handle_interactive_communication up to show_controller_ui(): the entry is
\* added under the agent_id argument as given
InteractiveBegin(c, agent_input, message) ==
    /\ calls[c].at = "idle"
    /\ calls' = [calls EXCEPT ![c] =
                    [NoCall EXCEPT !.at = "ui",
                                   !.handler = "handle_interactive_communication",
                                   !.input = agent_input,
                                   !.message = message]]
    /\ pending_calls' = add_pending_call(pending_calls, agent_input, message)
    /\ UNCHANGED <<now, store, procs, io, conversations, registry>>

\* the rest of either handler, from the return of show_controller_ui() with
\* a target or with None: handle_send_message removes the parsed id on both
\* branches; handle_interactive_communication removes the parsed id after a
\* send and the agent_id argument as given otherwise
HandlerEnd(c, target_agent) ==
    LET parsed == parse_agent_id(calls[c].input)
        sends == /\ target_agent # None
                 /\ \/ calls[c].handler = "handle_send_message"
                    \/ Truthy(calls[c].message)
        removed == IF sends \/ calls[c].handler = "handle_send_message"
                   THEN parsed.id ELSE calls[c].input
    IN  /\ calls[c].at = "ui"
        /\ IF sends
           THEN send_message(parsed.id[1], target_agent, calls[c].message)
           ELSE UNCHANGED <<now, store, procs, io, conversations, registry>>
        /\ pending_calls' = remove_pending_call(pending_calls, removed)
        /\ calls' = [calls EXCEPT ![c].at = "returned"]

---------------------------------------------------------------------------

DeliverTexts == {"hello"}

Init ==
    /\ now = 0
    /\ waiting = << >>
    /\ queue = << >>
    /\ convs = << >>
    /\ pc = [p \in Agents |-> "idle"]
    /\ wid = [p \in Agents |-> [tool |-> "agent_chat_1", sec |-> 0]]
    /\ tmo = [p \in Agents |-> NoTimeout]
    /\ start = [p \in Agents |-> 0]
    /\ result = [p \in Agents |-> None]
    /\ reg = [p \in Agents |-> NoLocals]
    /\ conversations = << >>
    /\ registry = << >>
    /\ pending_calls = << >>
    /\ calls = [c \in Callers |-> NoCall]
    /\ lock = [p \in Agents |-> FALSE]
    /\ raw = [f \in Files |-> "stored"]

Tick(d) ==
    /\ TickCount(now) < MaxTicks
    /\ now' = now + d
    /\ UNCHANGED <<store, procs, pairs, io>>

---------------------------------------------------------------------------
(* The backing files.  raw[f] tells what a read of file f finds: the stored
   collection, no file, text json.load cannot parse, or a JSON document that
   is not an object (a list) *)

FileStates == {"stored", "missing", "unparsable", "wrong shape"}

\* json.load returned a list: it has no .get and takes no string key
NotAnObject(r, f) == r[f] = "wrong shape"

\* whether a read operation raises (AttributeError: 'list' object has no
\* attribute 'get'); get_waiting_agents returns what _read_json returned
get_waiting_agents_raises == FALSE
get_message_queue_raises == NotAnObject(raw, "message_queue")
get_conversations_raises == NotAnObject(raw, "conversation_flow")
get_agent_status_raises == NotAnObject(raw, "waiting_agents")
get_controller_data_raises == get_conversations_raises \/ get_message_queue_raises

\* FlowManager(): _initialize_files writes the default into a missing file
Initialized(r) == [f \in Files |-> IF r[f] = "missing" THEN "stored" ELSE r[f]]

\* a file is removed or overwritten from outside; its collection is gone
Damage(f, kind) ==
    /\ raw[f] = "stored"
    /\ raw' = [raw EXCEPT ![f] = kind]
    /\ waiting' = IF f = "waiting_agents" THEN << >> ELSE waiting
    /\ queue' = IF f = "message_queue" THEN << >> ELSE queue
    /\ convs' = IF f = "conversation_flow" THEN << >> ELSE convs
    /\ UNCHANGED <<now, procs, pairs, lock>>

\* agent_chat_N_tool(agent_id, message) on whatever the files hold: the
\* conversation is written first (line 90), then the session (line 104), then
\* the message (line 141); a list where a dict is expected raises at lines
\* 73, 94 or 126 and the tool returns its error text (lines 380-385)
FileRegister(p) ==
    LET r == Initialized(raw)
        waiting_id == WaitingId(ToolOf(p))
        conv_raises == NotAnObject(r, "conversation_flow")
        waiting_raises == conv_raises \/ NotAnObject(r, "waiting_agents")
        queue_raises == waiting_raises \/ NotAnObject(r, "message_queue")
    IN  /\ pc[p] = "idle"
        /\ convs' = IF conv_raises THEN convs ELSE UpsertConversation(now, <<p>>)
        /\ waiting' = IF waiting_raises THEN waiting
                      ELSE Put(waiting, waiting_id,
                               SessionEntry(ToolOf(p), p, now, <<p>>, "hi"))
        /\ queue' = IF queue_raises THEN queue
                    ELSE add_message_to_queue(queue, now, p, "hi", <<p>>, waiting_id)
        /\ raw' = [f \in Files |->
                     IF \/ f = "conversation_flow" /\ ~conv_raises
                        \/ f = "waiting_agents" /\ ~waiting_raises
                        \/ f = "message_queue" /\ ~queue_raises
                     THEN "stored" ELSE r[f]]
        /\ pc' = [pc EXCEPT ![p] = IF queue_raises THEN "failed" ELSE "poll"]
        /\ wid' = IF waiting_raises THEN wid ELSE [wid EXCEPT ![p] = waiting_id]
        /\ result' = [result EXCEPT ![p] = IF queue_raises THEN "error" ELSE None]
        /\ UNCHANGED <<now, tmo, start, reg, pairs, lock>>

\* one poll of wait_for_delivery on whatever waiting_agents holds
FilePoll(p) ==
    IF get_agent_status_raises
    THEN /\ pc[p] = "poll"
         /\ pc' = [pc EXCEPT ![p] = "failed"]
         /\ result' = [result EXCEPT ![p] = "error"]
         /\ UNCHANGED <<now, store, wid, tmo, start, reg, pairs, io>>
    ELSE Poll(p)

\* the ids a caller can name: those it can see in the store, and the id of
\* the current second (which may name nothing)
WaitingIdArgs == DOMAIN waiting \cup { [tool |-> t, sec |-> now] : t \in Tools }
ConvIdArgs == { convs[i].conversation_id : i \in DOMAIN convs } \cup {now}
MsgIdArgs == { queue[i].id : i \in DOMAIN queue } \cup {now}

DeliverToAgent ==
    \E waiting_id \in WaitingIdArgs, text \in DeliverTexts :
        deliver_message_to_agent(waiting_id, text)

DeliverToParticipants ==
    \E conversation_id \in ConvIdArgs, agent_ids \in SUBSET Agents,
       text \in DeliverTexts, message_id \in MsgIdArgs :
        deliver_message_to_participants(conversation_id, agent_ids, text, message_id)

MarkDelivered ==
    \E message_id \in MsgIdArgs,
       agent_ids \in {{}} \cup { {s} : s \in SUBSET Agents } :
        MarkMessageDelivered(message_id, agent_ids)

\* the texts the message_content argument of a delivery can be
StoredTexts == {"", "hello"}

DeliverAnyText ==
    \E waiting_id \in WaitingIdArgs, text \in StoredTexts :
        deliver_message_to_agent(waiting_id, text)

\* get_controller_data: the keys are conversations, message_queue, timestamp
get_controller_data ==
    [conversations |-> convs, message_queue |-> queue, timestamp |-> now]

\* max(undelivered_messages, key=timestamp): the first of the newest
LatestOf(q, S) ==
    FirstOf({ i \in S : \A j \in S : q[j].timestamp <= q[i].timestamp })

\* _format_message_for_delivery(message_content, continue_chat=True, source="agent")
FormatForDelivery(message_content) ==
    message_content \o "<AI_INTERACTION_SOURCE>agent</AI_INTERACTION_SOURCE>"
                    \o "<AI_INTERACTION_CONTINUE_CHAT>true</AI_INTERACTION_CONTINUE_CHAT>"

\* ControllerUI.smart_delivery_latest_message.  "not msg.get('delivered',
\* False)" takes the messages whose delivered dict is empty; the waiting
\* agents are looked up in get_controller_data(), under a key it does not
\* have; the target is the first waiting session of another agent
smart_delivery_latest_message ==
    LET undelivered_messages == { i \in DOMAIN queue : ~DeliveredTruthy(queue[i]) }
        data == get_controller_data
        waiting_agents == IF "waiting_agents" \in DOMAIN data
                          THEN data.waiting_agents ELSE << >>
    IN  IF undelivered_messages = {} THEN UNCHANGED vars
        ELSE LET latest_message == queue[LatestOf(queue, undelivered_messages)]
                 available_targets ==
                     { x \in DOMAIN waiting_agents :
                          /\ waiting_agents[x].status = "waiting"
                          /\ waiting_agents[x].agent_id # latest_message.from_agent }
             IN  IF available_targets = {} THEN UNCHANGED vars
                 ELSE \E target_waiting_id \in available_targets :
                      /\ waiting' = IF target_waiting_id \in DOMAIN waiting
                                    THEN [waiting EXCEPT ![target_waiting_id] =
                                             Delivered(@, FormatForDelivery(latest_message.message))]
                                    ELSE waiting
                      /\ queue' = IF deliver_message_to_agent_ret(target_waiting_id)
                                  THEN mark_message_delivered(queue, latest_message.id, {})
                                  ELSE queue
                      /\ UNCHANGED <<now, convs, procs, pairs, io>>

\* the hours argument: 0 (everything is old) and 1 (cleanup_flow_data)
CleanupHours == {0, 1}

CleanupOldData == \E hours \in CleanupHours : cleanup_old_data(hours)

DeleteMessages == \E message_ids \in SUBSET MsgIdArgs : delete_messages(message_ids)

Controller ==
    \/ DeliverToAgent
    \/ DeliverToParticipants
    \/ MarkDelivered
    \/ CleanupOldData
    \/ DeleteMessages
    \/ clear_all_data

\* The two agent tools as deployed, and the controller
Next ==
    \/ Tick(1)
    \/ \E p \in Agents : AgentChatTool(p)
    \/ \E p \in Agents : Poll(p)
    \/ \E p \in Agents : Wake(p)
    \/ \E p \in Agents : RemoveOwn(p)
    \/ Controller

Spec == Init /\ [][Next]_vars

\* Agents of one group conversation, and the controller
NextGroup ==
    \/ Tick(1)
    \/ \E p \in Agents : GroupRegister(p)
    \/ \E p \in Agents : Poll(p)
    \/ \E p \in Agents : Wake(p)
    \/ \E p \in Agents : RemoveOwn(p)
    \/ Controller

SpecGroup == Init /\ [][NextGroup]_vars

\* Callers that wait with a timeout
NextTimed ==
    \/ Tick(1)
    \/ Tick(SecondsPerHour)
    \/ \E p \in Agents : TimedRegister(p)
    \/ \E p \in Agents : Poll(p)
    \/ \E p \in Agents : Wake(p)
    \/ \E p \in Agents : RemoveOwn(p)
    \/ DeliverToAgent
    \/ clear_all_data

\* an agent in wait_for_delivery keeps polling
Polling == \A p \in Agents : WF_vars(Poll(p)) /\ WF_vars(Wake(p))

SpecTimed == Init /\ [][NextTimed]_vars /\ Polling

FairSpec == Init /\ [][Next]_vars /\ Polling

\* Group registrations that age: the clock moves by seconds and by hours,
\* sessions are delivered and cleanup runs
NextAged ==
    \/ Tick(1)
    \/ Tick(SecondsPerHour)
    \/ \E p \in Agents : GroupRegister(p)
    \/ \E p \in Agents : Poll(p)
    \/ \E p \in Agents : Wake(p)
    \/ \E p \in Agents : RemoveOwn(p)
    \/ DeliverToAgent
    \/ CleanupOldData

SpecAged == Init /\ [][NextAged]_vars

\* The agent tools with their file accesses interleaved with other calls
NextRace ==
    \/ Tick(1)
    \/ \E p \in Agents : RegRead(p)
    \/ \E p \in Agents : RegWrite(p)
    \/ \E p \in Agents : Poll(p)
    \/ \E p \in Agents : Wake(p)
    \/ \E p \in Agents : RemoveOwn(p)
    \/ DeliverToAgent
    \/ clear_all_data

SpecRace == Init /\ [][NextRace]_vars

\* The agent tools with the lock of each poll shown, and the controller
NextLock ==
    \/ Tick(1)
    \/ \E p \in Agents : AgentChatTool(p)
    \/ \E p \in Agents : PollAcquire(p)
    \/ \E p \in Agents : PollRelease(p)
    \/ \E p \in Agents : Wake(p)
    \/ \E p \in Agents : RemoveOwn(p)
    \/ Controller

SpecLock == Init /\ [][NextLock]_vars

\* Registrations with every kind of argument, and deliveries to one agent
NextInputs ==
    \/ Tick(1)
    \/ \E p \in Agents : InputRegister(p)
    \/ DeliverToAgent

SpecInputs == Init /\ [][NextInputs]_vars

---------------------------------------------------------------------------
(* A write seen from another process.  _write_json opens the file with mode
   'w', which empties it, and json.dump then writes the text; the lock is the
   writer's own.  From the open to the end of the dump the file holds nothing
   or a part of the text, json.load raises JSONDecodeError on it and
   _read_json returns {}.  While a write is under way raw.waiting_agents is
   "unparsable", waiting is still the collection the last finished write
   stored and the writer's data is reg[p].waiting_data. *)

\* what _read_json returns for waiting_agents.json
ReadWaiting == IF raw["waiting_agents"] = "stored" THEN waiting ELSE << >>

\* lines 63-90 of a registration, reading through _read_json
RegReadTorn(p) ==
    /\ pc[p] = "idle"
    /\ reg' = [reg EXCEPT ![p] = [agent_tool |-> ToolOf(p),
                                  conversation_id |-> now,
                                  waiting_data |-> ReadWaiting]]
    /\ convs' = UpsertConversation(now, <<p>>)
    /\ pc' = [pc EXCEPT ![p] = "registering"]
    /\ UNCHANGED <<now, waiting, queue, wid, tmo, start, result, pairs, io>>

\* lines 92-104 up to the open(file_path, 'w') of _write_json
WriteOpen(p) ==
    LET waiting_id == WaitingId(reg[p].agent_tool) IN
    /\ pc[p] = "registering"
    /\ raw["waiting_agents"] = "stored"
    /\ reg' = [reg EXCEPT ![p].waiting_data =
                  Put(@, waiting_id,
                      SessionEntry(reg[p].agent_tool, p, reg[p].conversation_id,
                                   <<p>>, "hi"))]
    /\ wid' = [wid EXCEPT ![p] = waiting_id]
    /\ raw' = [raw EXCEPT !["waiting_agents"] = "unparsable"]
    /\ pc' = [pc EXCEPT ![p] = "writing"]
    /\ UNCHANGED <<now, store, tmo, start, result, pairs, lock>>

\* the json.dump and close of that write, then lines 106-109
WriteDump(p) ==
    /\ pc[p] = "writing"
    /\ waiting' = reg[p].waiting_data
    /\ raw' = [raw EXCEPT !["waiting_agents"] = "stored"]
    /\ queue' = add_message_to_queue(queue, reg[p].conversation_id, p, "hi",
                                     <<p>>, wid[p])
    /\ pc' = [pc EXCEPT ![p] = "poll"]
    /\ start' = [start EXCEPT ![p] = now]
    /\ reg' = [reg EXCEPT ![p] = NoLocals]
    /\ UNCHANGED <<now, convs, wid, tmo, result, pairs, lock>>

\* the other calls, reading through _read_json: during a write the id is not
\* found, so a poll sleeps, a delivery returns False and a removal does nothing
PollTorn(p) ==
    IF raw["waiting_agents"] = "stored" THEN Poll(p)
    ELSE /\ pc[p] = "poll"
         /\ pc' = [pc EXCEPT ![p] = IF TimedOut(p) THEN "got" ELSE "sleep"]
         /\ UNCHANGED <<now, store, wid, tmo, start, result, reg, pairs, io>>

DeliverTorn ==
    IF raw["waiting_agents"] = "stored" THEN DeliverToAgent ELSE UNCHANGED vars

RemoveOwnTorn(p) ==
    IF raw["waiting_agents"] = "stored" THEN RemoveOwn(p)
    ELSE /\ pc[p] = "got"
         /\ pc' = [pc EXCEPT ![p] = "done"]
         /\ UNCHANGED <<now, store, wid, tmo, start, result, reg, pairs, io>>

\* Agent tool calls and deliveries, with the write of waiting_agents.json
\* shown as the two steps another process can see
NextTorn ==
    \/ Tick(1)
    \/ \E p \in Agents : RegReadTorn(p)
    \/ \E p \in Agents : WriteOpen(p)
    \/ \E p \in Agents : WriteDump(p)
    \/ \E p \in Agents : PollTorn(p)
    \/ \E p \in Agents : Wake(p)
    \/ \E p \in Agents : RemoveOwnTorn(p)
    \/ DeliverTorn

SpecTorn == Init /\ [][NextTorn]_vars

\* Agent tool calls, and the controller's smart delivery and deliveries
NextSmart ==
    \/ Tick(1)
    \/ \E p \in Agents : AgentChatTool(p)
    \/ \E p \in Agents : Poll(p)
    \/ \E p \in Agents : Wake(p)
    \/ \E p \in Agents : RemoveOwn(p)
    \/ smart_delivery_latest_message
    \/ DeliverToAgent

SpecSmart == Init /\ [][NextSmart]_vars

\* Agent tool calls, and deliveries of any text
NextTexts ==
    \/ Tick(1)
    \/ \E p \in Agents : AgentChatTool(p)
    \/ \E p \in Agents : Poll(p)
    \/ \E p \in Agents : Wake(p)
    \/ \E p \in Agents : RemoveOwn(p)
    \/ DeliverAnyText

SpecTexts == Init /\ [][NextTexts]_vars

\* Agent tool calls on files that are missing or do not hold the collection
NextFiles ==
    \/ Tick(1)
    \/ \E f \in Files, kind \in FileStates \ {"stored"} : Damage(f, kind)
    \/ \E p \in Agents : FileRegister(p)
    \/ \E p \in Agents : FilePoll(p)
    \/ \E p \in Agents : Wake(p)

SpecFiles == Init /\ [][NextFiles]_vars

\* The calls that change the message queue
NextQueue ==
    \/ Tick(1)
    \/ \E p \in Agents : GroupRegister(p)
    \/ MarkDelivered
    \/ DeleteMessages
    \/ CleanupOldData

SpecQueue == Init /\ [][NextQueue]_vars

\* The two-party path: agents send each other (or themselves) messages
NextPairs ==
    \/ Tick(1)
    \/ \E from_agent \in Agents, to_agent \in Agents :
          agent_comm_send(from_agent, to_agent, "hi")

SpecPairs == Init /\ [][NextPairs]_vars

\* The handlers that show the controller UI
NextCalls ==
    \/ Tick(1)
    \/ \E c \in Callers, agent_input \in AgentInputs, message \in {None, "hi"} :
          SendBegin(c, agent_input, message)
    \/ \E c \in Callers, agent_input \in AgentInputs, message \in {None, "hi"} :
          InteractiveBegin(c, agent_input, message)
    \/ \E c \in Callers, target_agent \in {None} \cup Agents :
          HandlerEnd(c, target_agent)

SpecCalls == Init /\ [][NextCalls]_vars

\* Sends and check_messages calls that run side by side
NextPickup ==
    \/ Tick(1)
    \/ \E from_agent \in Agents, to_agent \in Agents :
          agent_comm_send(from_agent, to_agent, "hi")
    \/ \E c \in Callers, agent_id \in Agents : CheckRead(c, agent_id)
    \/ \E c \in Callers : CheckMark(c)

SpecPickup == Init /\ [][NextPickup]_vars

---------------------------------------------------------------------------
(* Waiting sessions *)

\* C1: a session stored with status delivered is not stored under the same
\* id with status waiting by any later call.
C1_StatusNeverBackward ==
    [][\A x \in DOMAIN waiting :
          (waiting[x].status = "delivered" /\ x \in DOMAIN waiting')
              => waiting'[x].status = "delivered"]_vars

\* C2: wait_for_delivery with timeout=None returns only on a poll that finds
\* the session stored with status delivered, and returns the
\* delivered_message stored on it.
C2_WaitReturnsTheDelivery ==
    [][\A p \in Agents :
          (pc[p] = "poll" /\ pc'[p] = "got" /\ tmo[p] = NoTimeout)
              => /\ wid[p] \in DOMAIN waiting
                 /\ waiting[wid[p]].status = "delivered"
                 /\ result'[p] = waiting[wid[p]].delivered_message]_vars

\* an agent has returned from an untimed wait with the delivered text
C2_Witness ==
    \E p \in Agents :
        pc[p] = "got" /\ tmo[p] = NoTimeout /\ result[p] \in DeliverTexts

\* C5: deliver_message_to_participants flips exactly the sessions of the
\* conversation whose agent is a recipient and whose status is waiting, stores
\* the text on them, leaves every other session as it was, and returns true
\* iff a session went from waiting to delivered.
C5_DeliverFlipsExactlyTheMatching ==
    [][\A c \in ConvIdArgs, A \in SUBSET Agents, t \in DeliverTexts :
          ( /\ waiting' # waiting
            /\ \E m \in MsgIdArgs : deliver_message_to_participants(c, A, t, m) ) =>
              /\ DOMAIN waiting' = DOMAIN waiting
              /\ \A x \in DOMAIN waiting :
                    IF /\ waiting[x].conversation_id = c
                       /\ waiting[x].agent_id \in A
                       /\ waiting[x].status = "waiting"
                    THEN /\ waiting'[x].status = "delivered"
                         /\ waiting'[x].delivered_message = t
                    ELSE waiting'[x] = waiting[x]
              /\ delivered_any(c, A) <=>
                    \E x \in DOMAIN waiting :
                        /\ waiting[x].status = "waiting"
                        /\ waiting'[x].status = "delivered"]_vars

\* two sessions of one conversation, one delivered and one left waiting
C5_Witness ==
    \E x, y \in DOMAIN waiting :
        /\ waiting[x].conversation_id = waiting[y].conversation_id
        /\ waiting[x].agent_id # waiting[y].agent_id
        /\ waiting[x].status = "delivered"
        /\ waiting[x].delivered_message \in DeliverTexts
        /\ waiting[y].status = "waiting"

\* C3: wait_for_delivery with a numeric timeout t that finds no delivery
\* returns None, not before t seconds have passed since it started, and it
\* does return once they have.
C3_TimeoutReturn ==
    /\ [][\A p \in Agents :
             ( /\ pc[p] = "poll" /\ pc'[p] = "got" /\ tmo[p] # NoTimeout
               /\ ~(wid[p] \in DOMAIN waiting /\ waiting[wid[p]].status = "delivered") )
                 => (result'[p] = None /\ now - start[p] >= tmo[p])]_vars
    /\ \A p \in Agents :
          (pc[p] \in {"poll", "sleep"} /\ tmo[p] # NoTimeout
                                       /\ now - start[p] >= tmo[p])
              ~> (pc[p] = "got")

\* a timed wait has returned None after its timeout
C3_Witness ==
    \E p \in Agents :
        /\ pc[p] = "got" /\ tmo[p] # NoTimeout
        /\ result[p] = None /\ now - start[p] >= tmo[p]

\* C4: an agent polling a session that a delivery has flipped to delivered
\* eventually returns from wait_for_delivery.
C4_DeliveredAgentWakes ==
    \A p \in Agents :
        (pc[p] \in {"poll", "sleep"} /\ wid[p] \in DOMAIN waiting
                                    /\ waiting[wid[p]].status = "delivered")
            ~> (pc[p] = "got")

---------------------------------------------------------------------------
(* Queued messages *)

AllDelivered(msg) == \A a \in DOMAIN msg.delivered : msg.delivered[a]

\* C7: every queued message has delivered_all = true iff every value of its
\* delivered map is true (so a message with no target has it from the start).
C7_DeliveredAllIffEveryFlag ==
    \A i \in DOMAIN queue :
        (queue[i].delivered_all = {TRUE}) <=> AllDelivered(queue[i])

ConvParticipants(conversation_id) ==
    UNION { convs[i].participants : i \in ConvIndex(conversation_id) }

\* C8: a message enqueued by register_waiting_agent has as targets the
\* participants stored for its conversation after the registration's merge,
\* minus the sender.
C8_TargetsAreTheStoredParticipants ==
    [][Len(queue') = Len(queue) + 1 =>
          LET msg == queue'[Len(queue')]
              stored == UNION { convs'[i].participants :
                                  i \in { j \in DOMAIN convs' :
                                            convs'[j].conversation_id = msg.conversation_id } }
          IN  Elems(msg.targets) = stored \ {msg.from_agent}]_vars

\* C6: with alice's message m (targets {bob}) queued in a conversation of
\* alice and bob and bob waiting in it, deliver_message_to_participants(conv,
\* {bob}, text, m) leaves m with delivered[bob] and delivered_all true and
\* bob's session delivered with the text.
C6_ScenarioB ==
    [][\A c \in ConvIdArgs, t \in DeliverTexts, i \in DOMAIN queue :
          ( /\ queue[i].conversation_id = c
            /\ queue[i].from_agent = "alice"
            /\ Elems(queue[i].targets) = {"bob"}
            /\ ConvParticipants(c) = {"alice", "bob"}
            /\ \E x \in DOMAIN waiting : Matches(waiting[x], c, {"bob"})
            /\ deliver_message_to_participants(c, {"bob"}, t, queue[i].id) )
          => /\ Len(queue') = Len(queue)
             /\ queue'[i].delivered["bob"]
             /\ queue'[i].delivered_all = {TRUE}
             /\ \A x \in DOMAIN waiting :
                   Matches(waiting[x], c, {"bob"})
                       => /\ waiting'[x].status = "delivered"
                          /\ waiting'[x].delivered_message = t]_vars

\* C9: a queued message keeps the targets it was created with, and the keys
\* of its delivered map are its targets.
C9_TargetsFixedKeysAreTargets ==
    \A i \in DOMAIN queue :
        /\ queue[i].targets = queue[i].targets_at_enqueue
        /\ DOMAIN queue[i].delivered = Elems(queue[i].targets)

\* a message that was marked, in a conversation that has since gained a
\* participant who is not among its targets
C9_Witness ==
    \E i \in DOMAIN queue :
        /\ queue[i].delivered_all # {}
        /\ ConvParticipants(queue[i].conversation_id)
               \ (Elems(queue[i].targets) \cup {queue[i].from_agent}) # {}

\* C10: the sender of a queued message is not among its targets nor a key of
\* its delivered map.
C10_SenderIsNoTarget ==
    \A i \in DOMAIN queue :
        /\ queue[i].from_agent \notin Elems(queue[i].targets)
        /\ queue[i].from_agent \notin DOMAIN queue[i].delivered

\* a message with a target, enqueued from a participants list that names its
\* sender twice
C10_Witness ==
    \E i \in DOMAIN queue :
        /\ queue[i].targets # << >>
        /\ queue[i].waiting_id \in DOMAIN waiting
        /\ LET session == waiting[queue[i].waiting_id] IN
           /\ session.agent_id = queue[i].from_agent
           /\ \E j, k \in DOMAIN session.participants :
                 /\ j # k
                 /\ session.participants[j] = queue[i].from_agent
                 /\ session.participants[k] = queue[i].from_agent

---------------------------------------------------------------------------

\* every target's flag is true and delivered_all is recorded as true
FullyDelivered(msg) == AllDelivered(msg) /\ msg.delivered_all = {TRUE}

\* C11: cleanup_old_data never removes a queued message that is not yet
\* fully delivered (a flag is false, or delivered_all is not true), however
\* old the message is.
C11_CleanupKeepsUndelivered ==
    [][\A h \in CleanupHours :
          cleanup_old_data(h) =>
              \A i \in DOMAIN queue :
                  ~FullyDelivered(queue[i]) =>
                      \E j \in DOMAIN queue' : queue'[j] = queue[i]]_vars

\* C12: after cleanup_old_data(hours) no session older than the cutoff
\* remains, whatever its status, and every session newer than the cutoff
\* remains unchanged.
C12_CleanupSessions ==
    [][\A h \in CleanupHours :
          cleanup_old_data(h) =>
              LET cutoff_time == now - h * SecondsPerHour IN
              /\ DOMAIN waiting' \subseteq DOMAIN waiting
              /\ \A x \in DOMAIN waiting :
                    /\ waiting[x].timestamp < cutoff_time
                           => x \notin DOMAIN waiting'
                    /\ waiting[x].timestamp > cutoff_time
                           => x \in DOMAIN waiting' /\ waiting'[x] = waiting[x]]_vars

\* an old session is gone while its agent still polls, a newer one is kept
C12_Witness ==
    \E p \in Agents, x \in DOMAIN waiting :
        /\ pc[p] \in {"poll", "sleep"}
        /\ wid[p] \notin DOMAIN waiting
        /\ waiting[x].timestamp >= start[p] + SecondsPerHour
        /\ waiting[x].timestamp > now - SecondsPerHour

---------------------------------------------------------------------------

\* the positions of q whose id is named / not named by message_ids
Named(q, message_ids) == { i \in DOMAIN q : q[i].id \in message_ids }
Unnamed(q, message_ids) == DOMAIN q \ Named(q, message_ids)

\* C13: delete_messages(ids) removes exactly the queue entries whose id is in
\* ids, returns the number of entries removed (unknown ids count 0), and
\* leaves every other entry present, in order and unchanged.
C13_DeleteRemovesExactlyTheNamed ==
    /\ [](\A ids \in SUBSET MsgIdArgs :
            delete_messages_ret(ids) = Cardinality(Named(queue, ids)))
    /\ [][\A ids \in SUBSET MsgIdArgs :
            delete_messages(ids) =>
                /\ Len(queue') = Cardinality(Unnamed(queue, ids))
                /\ \A i \in Unnamed(queue, ids) :
                      queue'[Cardinality({ j \in Unnamed(queue, ids) : j <= i })]
                          = queue[i]]_vars

\* the message of one waiting agent is gone from the queue while another
\* message is still there
C13_Witness ==
    /\ \E p \in Agents :
          /\ pc[p] \in {"poll", "sleep"}
          /\ wid[p] \in DOMAIN waiting
          /\ waiting[wid[p]].agent_id = p
          /\ \A i \in DOMAIN queue : queue[i].waiting_id # wid[p]
    /\ queue # << >>

---------------------------------------------------------------------------

\* agent p's registration writes its session in this step
Registers(p) == pc[p] \in {"idle", "registering"} /\ pc'[p] = "poll"

\* C14: after clear_all_data the three collections are empty and nothing
\* from before the call is left: a session is in the store after a step only
\* if it was there before the step or is the one registered by that step.
C14_ClearLeavesNothing ==
    [][/\ clear_all_data =>
             waiting' = << >> /\ queue' = << >> /\ convs' = << >>
       /\ \A x \in DOMAIN waiting' :
             \/ x \in DOMAIN waiting
             \/ \E p \in Agents : Registers(p) /\ x = wid'[p]]_vars

\* C20: no lost update: the store after a registration is the store as the
\* calls completed before it left it, with the new session put in.
C20_NoLostUpdate ==
    [][\A p \in Agents :
          Registers(p) =>
              waiting' = Put(waiting, wid'[p], waiting'[wid'[p]])]_vars

---------------------------------------------------------------------------

\* C15: short of clear_all_data a conversation's stored participant set only
\* grows, and a registration merges its participants into the set stored
\* for its conversation id.
C15_ParticipantsOnlyGrow ==
    [][\/ clear_all_data
       \/ /\ \A i \in DOMAIN convs : \E j \in DOMAIN convs' :
                /\ convs'[j].conversation_id = convs[i].conversation_id
                /\ convs[i].participants \subseteq convs'[j].participants
          /\ \A p \in Agents :
                Registers(p) =>
                    LET session == waiting'[wid'[p]]
                        c == session.conversation_id
                    IN  UNION { convs'[j].participants :
                                  j \in { k \in DOMAIN convs' :
                                            convs'[k].conversation_id = c } }
                          = ConvParticipants(c) \cup Elems(session.participants)]_vars

\* a registration that named a known conversation id has brought a
\* participant the conversation did not have
C15_Witness ==
    \E i \in DOMAIN convs, x \in DOMAIN waiting :
        /\ waiting[x].conversation_id = convs[i].conversation_id
        /\ waiting[x].timestamp > convs[i].created_at
        /\ Elems(waiting[x].participants) # convs[i].participants
        /\ waiting[x].agent_id \in convs[i].participants
        /\ convs[i].participants = Agents

---------------------------------------------------------------------------

\* C16: every conversation created for a pair is found again by that pair,
\* in either order, and a lookup returns only a conversation whose stored
\* participant set equals the set of the two agents asked for.
C16_LookupRoundTrip ==
    /\ \A i \in DOMAIN conversations :
          LET P == conversations[i].participants IN
          /\ find_conversation_between_agents(conversations, P[1], P[2])
                = { conversations[i].id }
          /\ find_conversation_between_agents(conversations, P[2], P[1])
                = { conversations[i].id }
    /\ \A agent1 \in Agents, agent2 \in Agents :
          \A c \in find_conversation_between_agents(conversations, agent1, agent2) :
              \A i \in PairIndex(conversations, c) :
                  Elems(conversations[i].participants) = {agent1, agent2}

---------------------------------------------------------------------------

\* the session's conversation id is the one a registration without an
\* explicit id computes: conv_<second of the call>
DefaultConversation(session) == session.conversation_id = session.timestamp

\* C17: two registrations without an explicit conversation id are in the same
\* conversation iff their participant sets are equal.
C17_SameConversationIffSameParticipants ==
    \A x \in DOMAIN waiting, y \in DOMAIN waiting :
        (DefaultConversation(waiting[x]) /\ DefaultConversation(waiting[y])) =>
            ( waiting[x].conversation_id = waiting[y].conversation_id
                <=> Elems(waiting[x].participants) = Elems(waiting[y].participants) )

---------------------------------------------------------------------------

\* C18: every registration gets an id of its own: the id it returns names no
\* session already stored, so no registration replaces a session record.
C18_SessionIdsUnique ==
    [][\A p \in Agents : Registers(p) => wid'[p] \notin DOMAIN waiting]_vars

\* C19: no two entries of the message queue have the same id.
C19_MessageIdsUnique ==
    \A i \in DOMAIN queue, j \in DOMAIN queue :
        i # j => queue[i].id # queue[j].id

---------------------------------------------------------------------------

\* agent p is inside wait_for_delivery
Blocked(p) == pc[p] \in {"poll", "reading", "sleep"}

\* C21: an agent in wait_for_delivery holds no lock while it sleeps between
\* polls, and while agents are blocked every other operation (a registration
\* by another agent, deliver, delete, cleanup, clear) can be carried out.
C21_NoLockAcrossSleep ==
    /\ \A p \in Agents : pc[p] = "sleep" => ~lock[p]
    /\ (\E p \in Agents : Blocked(p)) =>
          /\ ENABLED DeliverToAgent
          /\ ENABLED DeliverToParticipants
          /\ ENABLED DeleteMessages
          /\ ENABLED CleanupOldData
          /\ ENABLED clear_all_data
          /\ \A q \in Agents : pc[q] = "idle" => ENABLED AgentChatTool(q)

\* both agents are blocked, one of them asleep, and a delivery has been made
C21_Witness ==
    /\ \A p \in Agents : Blocked(p)
    /\ \E p \in Agents : pc[p] = "sleep"
    /\ \E x \in DOMAIN waiting : waiting[x].status = "delivered"

---------------------------------------------------------------------------

\* C22: register_waiting_agent stores exactly one new session, with status
\* waiting, and appends exactly one message to the queue iff a message is
\* given and skip_queue is false (also when nobody is a target); otherwise
\* the queue is left unchanged.
C22_RegisterStoresOneSession ==
    [][\A p \in Agents :
       \A agent_id \in AgentIdArgs(p), message \in MessageArgs,
          participants_arg \in ParticipantArgs(p), skip_queue \in BOOLEAN :
          register_waiting_agent(p, ToolOf(p), agent_id, message, participants_arg,
                                 NoConv, skip_queue, NoTimeout) =>
              LET session == waiting'[wid'[p]] IN
              /\ waiting' = Put(waiting, wid'[p], session)
              /\ session.status = "waiting"
              /\ session.agent_id = agent_id
              /\ IF message # None /\ message # "" /\ ~skip_queue
                 THEN /\ Len(queue') = Len(queue) + 1
                      /\ SubSeq(queue', 1, Len(queue)) = queue
                      /\ queue'[Len(queue')].from_agent = agent_id
                      /\ queue'[Len(queue')].message = message
                 ELSE queue' = queue]_vars

\* a message nobody is a target of is in the queue, and a session registered
\* with a message has none in the queue
C22_Witness ==
    /\ \E i \in DOMAIN queue : queue[i].targets = << >>
    /\ \E x \in DOMAIN waiting :
          /\ waiting[x].message = "hi"
          /\ \A i \in DOMAIN queue : queue[i].waiting_id # x

\* C25: a registration with an empty agent id or an empty participants list
\* is rejected before anything is written, so no session with an empty
\* agent id or an empty participants list is ever stored.
C25_InvalidInputRejected ==
    [][\A p \in Agents :
          Registers(p) =>
              /\ waiting'[wid'[p]].agent_id # ""
              /\ waiting'[wid'[p]].participants # << >>]_vars

\* session ids that name no record: ids never registered, and the ids of
\* agents whose record is gone; message ids that name no message
StaleWaitingIds ==
    (WaitingIdArgs \cup { [tool |-> t, sec |-> n] : t \in Tools, n \in 0..(now + 1) }
                   \cup { wid[p] : p \in Agents }) \ DOMAIN waiting
StaleMessageIds == (0..(now + 1)) \ { queue[i].id : i \in DOMAIN queue }

\* C23: a call that names a session id or a message id not in the store is
\* a silent no-op: remove_waiting_agent, deliver_message_to_agent (returns
\* False), get_agent_status (returns None), mark_message_delivered and
\* delete_messages (returns 0) leave all three collections as they were.
C23_StaleReferencesAreNoOps ==
    /\ \A x \in StaleWaitingIds :
          /\ remove_waiting_agent(waiting, x) = waiting
          /\ ~deliver_message_to_agent_ret(x)
          /\ get_agent_status(x) = {}
          /\ \A text \in DeliverTexts :
                /\ ENABLED deliver_message_to_agent(x, text)
                /\ ~ENABLED (deliver_message_to_agent(x, text) /\ store' # store)
    /\ \A m \in StaleMessageIds :
          /\ delete_messages_ret({m}) = 0
          /\ ENABLED delete_messages({m})
          /\ ~ENABLED (delete_messages({m}) /\ store' # store)
          /\ \A agent_ids \in {{}} \cup { {a} : a \in SUBSET Agents } :
                /\ ENABLED MarkMessageDelivered(m, agent_ids)
                /\ ~ENABLED (MarkMessageDelivered(m, agent_ids) /\ store' # store)

\* an agent has removed its own session, whose id is now stale, while
\* another session and a message are in the store
C23_Witness ==
    /\ \E p \in Agents : pc[p] = "done" /\ wid[p] \in StaleWaitingIds
    /\ waiting # << >>
    /\ queue # << >>
    /\ now \in StaleMessageIds

\* C24: delivering to a session is idempotent: a second
\* deliver_message_to_agent on the same session id with the same text
\* leaves the record (status, delivered_message, delivered_at) as the
\* first call left it.
C24_DeliveryIdempotent ==
    [][\A x \in DOMAIN waiting, text \in DeliverTexts :
          ( /\ waiting[x].status = "delivered"
            /\ waiting[x].delivered_message = text
            /\ deliver_message_to_agent(x, text) ) =>
              waiting'[x] = waiting[x]]_vars

\* C28: a queue message's delivered_at is stamped once, when the message
\* becomes fully delivered: a later mark_message_delivered on a message that
\* already has a delivered_at leaves that value as it is.
C28_DeliveredAtStampedOnce ==
    [][\A m \in MsgIdArgs, agent_ids \in {{}} \cup { {a} : a \in SUBSET Agents } :
          MarkMessageDelivered(m, agent_ids) =>
              \A i \in DOMAIN queue :
                  queue[i].delivered_at # {} =>
                      queue'[i].delivered_at = queue[i].delivered_at]_vars

\* the senders with a message in q, and the place of a sender's message
\* (every agent makes one tool call, so it enqueues at most one message)
Senders(q) == { q[i].from_agent : i \in DOMAIN q }
Place(q, a) == FirstOf({ i \in DOMAIN q : q[i].from_agent = a })
ConvOf(q, a) == q[Place(q, a)].conversation_id

\* C29: enqueue order is preserved in storage: no step changes the relative
\* order of two messages of one conversation that stay in the queue, and a
\* message enqueued by a step comes after every message of its conversation
\* that was already there.
C29_EnqueueOrderPreserved ==
    [][/\ \A i, j \in DOMAIN queue' :
             queue'[i].from_agent = queue'[j].from_agent => i = j
       /\ \A a, b \in Senders(queue') :
             (a \in Senders(queue) /\ ConvOf(queue', a) = ConvOf(queue', b)) =>
                 IF b \in Senders(queue)
                 THEN (Place(queue, a) < Place(queue, b))
                         <=> (Place(queue', a) < Place(queue', b))
                 ELSE Place(queue', a) < Place(queue', b)]_vars

\* two messages of one conversation are in the queue, the earlier one
\* marked as delivered to everybody
C29_Witness ==
    /\ Len(queue) = 2
    /\ queue[1].conversation_id = queue[2].conversation_id
    /\ queue[1].from_agent # queue[2].from_agent
    /\ queue[1].delivered_at # {}
    /\ queue[2].delivered_at = {}

\* C30: when an agent's tool call returns after a delivery, the session it
\* registered is no longer in the waiting store, and the call has removed
\* no session but the one it registered.
C30_RemovesItsOwnSessionOnly ==
    [][\A p \in Agents :
          (pc[p] = "got" /\ pc'[p] = "done") =>
              /\ wid[p] \notin DOMAIN waiting'
              /\ \A x \in DOMAIN waiting \ DOMAIN waiting' :
                     waiting[x].agent_id = p]_vars

\* C26: when a backing file is missing or holds malformed content
\* (unparsable text, or a document of the wrong shape), no read operation
\* raises, and a following registration succeeds.
C26_DamagedFilesReadAsEmpty ==
    (\E f \in Files : raw[f] # "stored") =>
        /\ ~get_waiting_agents_raises
        /\ ~get_message_queue_raises
        /\ ~get_conversations_raises
        /\ ~get_agent_status_raises
        /\ ~get_controller_data_raises
        /\ \A p \in Agents :
              pc[p] = "idle" =>
                  /\ ENABLED FileRegister(p)
                  /\ ~ENABLED (FileRegister(p) /\ pc'[p] = "failed")

\* C27: no torn read: a read of waiting_agents returns the collection the
\* last finished write stored, or the collection a write under way is
\* storing, never an empty or partial collection seen in the middle of a
\* write.
C27_NoTornRead ==
    \/ ReadWaiting = waiting
    \/ \E p \in Agents : pc[p] = "writing" /\ ReadWaiting = reg[p].waiting_data

\* C31: with the infinite wait of the agent tools, a tool call never takes
\* the "Unexpected error: No message received." branch: what it returns is
\* the text delivered to its session, whatever text the delivery stored.
C31_NeverUnexpectedError ==
    \A p \in Agents :
        pc[p] = "done" => agent_chat_tool_ret(p) # UnexpectedError

\* C32: smart delivery: when the queue holds a message of agent S that is
\* not fully delivered and a session of an agent other than S has status
\* waiting, smart_delivery_latest_message flips one such session to
\* delivered.
C32_SmartDeliveryDelivers ==
    \A i \in DOMAIN queue, x \in DOMAIN waiting :
        ( /\ queue[i].delivered_all # {TRUE}
          /\ waiting[x].status = "waiting"
          /\ waiting[x].agent_id # queue[i].from_agent ) =>
            ENABLED ( /\ smart_delivery_latest_message
                      /\ \E y \in DOMAIN waiting :
                            /\ waiting[y].status = "waiting"
                            /\ waiting'[y].status = "delivered" )

\* C33: a per-recipient flag reflects a hand-over: when a
\* deliver_message_to_participants call sets delivered[r] of a message, a
\* waiting session of agent r in that message's conversation was flipped to
\* delivered by the same call.
C33_FlagMeansHandOver ==
    [][\A c \in ConvIdArgs, agent_ids \in SUBSET Agents,
          t \in DeliverTexts, m \in MsgIdArgs :
          deliver_message_to_participants(c, agent_ids, t, m) =>
              \A i \in DOMAIN queue :
                  \A r \in DOMAIN queue[i].delivered :
                      (~queue[i].delivered[r] /\ queue'[i].delivered[r]) =>
                          \E x \in DOMAIN waiting :
                              /\ waiting[x].agent_id = r
                              /\ waiting[x].conversation_id = queue[i].conversation_id
                              /\ waiting[x].status = "waiting"
                              /\ waiting'[x].status = "delivered"]_vars

\* C34: an agent is woken only by a delivery to its own session: while an
\* agent is blocked in wait_for_delivery(sid), the record stored under sid,
\* if any, is the one this agent registered, not the record of another
\* agent's registration.
C34_WokenByOwnSessionOnly ==
    \A p \in Agents :
        (Blocked(p) /\ wid[p] \in DOMAIN waiting) =>
            waiting[wid[p]].agent_id = p

\* C35: referential integrity: the conversation_id of every stored waiting
\* session and of every queued message names a conversation of the
\* conversation registry.
C35_ReferentialIntegrity ==
    /\ \A x \in DOMAIN waiting : ConvIndex(waiting[x].conversation_id) # {}
    /\ \A i \in DOMAIN queue : ConvIndex(queue[i].conversation_id) # {}

\* C36: a session's delivered_message is written once: while a session
\* stays stored with status delivered, no delivery call changes its
\* delivered_message.
C36_DeliveredMessageWrittenOnce ==
    [][\A x \in DOMAIN waiting \cap DOMAIN waiting' :
          (waiting[x].status = "delivered" /\ waiting'[x].status = "delivered")
              => waiting'[x].delivered_message = waiting[x].delivered_message]_vars

\* C37: a blocked agent stays releasable: whenever an agent is blocked in
\* wait_for_delivery with no timeout, its session id is in the waiting store.
C37_BlockedAgentIsStored ==
    \A p \in Agents :
        (Blocked(p) /\ tmo[p] = NoTimeout) => wid[p] \in DOMAIN waiting

\* C38: two-party pickup is exactly-once: no message is returned by two
\* check_messages calls, and a message stored as delivered is in the result
\* of a check_messages call.
C38_PickupExactlyOnce ==
    /\ \A c, d \in Callers : c # d => calls[c].got \cap calls[d].got = {}
    /\ \A i \in DOMAIN conversations :
          \A k \in DOMAIN conversations[i].messages :
              conversations[i].messages[k].status = "delivered" =>
                  \E c \in Callers :
                      [conversation_id |-> conversations[i].id,
                       id |-> conversations[i].messages[k].id] \in calls[c].got

\* C39: pending tool calls do not outlive their call: when no call of
\* handle_send_message or handle_interactive_communication is under way,
\* every call having returned, no entry is left in the pending-calls record.
C39_NoPendingCallOutlivesItsCall ==
    (\A c \in Callers : calls[c].at # "ui") => pending_calls = << >>

====
